---- MODULE Spec2Model ----
(***************************************************************************)
(* Client-side authentication facade: the service operations of            *)
(* src/services/auth.ts over the identity provider and the document store, *)
(* and the AuthProvider context that drives them.                          *)
(*                                                                         *)
(* Every `await` of the source is one step: the collaborator's effect and  *)
(* the code that runs up to the next `await` happen in one action.         *)
(* JavaScript values: strings are strings, `undefined` and `null` are the  *)
(* two sentinels below, an optional object is a sequence of length <= 1,   *)
(* a Firestore document is a function from its field names to values.     *)
(***************************************************************************)
EXTENDS Integers, Sequences, FiniteSets, TLC

\* ------------------------------------------------------------- bounds
MaxUsers == 1      \* subjects known to the identity provider
MaxCalls == 2      \* service calls in flight at once
MaxOps == 3        \* service calls invoked in one run
MaxContextOps == 2 \* context operations called in one run
MaxTime == 2       \* the clock reads 1..MaxTime
MaxSubscriptionOps == 2 \* service calls invoked beside a subscriber

\* ------------------------------------------------------ JavaScript values
undefined == "<undefined>"
null == "<null>"
None == << >>
Some(x) == << x >>

\* a || b
Falsy(v) == v \in {undefined, null, ""}
Or(a, b) == IF Falsy(a) THEN b ELSE a

\* `${v}`
Template(v) == IF v = undefined THEN "undefined" ELSE IF v = null THEN "null" ELSE v

\* ------------------------------------------------------------ inputs
UidNames == <<"u1", "u2", "u3">>
Uid == {UidNames[i] : i \in 1..MaxUsers}
Roles == {"student", "admin"}
Times == 1..MaxTime

\* The identity assertions the provider can issue for a subject: one that
\* carries every field, one that omits them all.
FullUser(u) == [uid |-> u, email |-> "a@x.com", displayName |-> "Ann", photoURL |-> "p1.png"]
BareUser(u) == [uid |-> u, email |-> null, displayName |-> null, photoURL |-> null]
FirebaseUsers(u) == {FullUser(u), BareUser(u)}

\* signUp(email, password, displayName, role)
SignUpArgs == [email : {"z@x.com"}, displayName : {"Zed"}, role : Roles]

\* ----------------------------------------------------- AuthErrorType enum
POPUP_BLOCKED == "POPUP_BLOCKED"
REDIRECT_IN_PROGRESS == "REDIRECT_IN_PROGRESS"
SIGN_IN_CANCELLED == "SIGN_IN_CANCELLED"
UNAUTHORIZED_DOMAIN == "UNAUTHORIZED_DOMAIN"
CONFIGURATION_ERROR == "CONFIGURATION_ERROR"
NETWORK_ERROR == "NETWORK_ERROR"
ACCOUNT_EXISTS == "ACCOUNT_EXISTS"
OPERATION_NOT_ALLOWED == "OPERATION_NOT_ALLOWED"
INVALID_CREDENTIALS == "INVALID_CREDENTIALS"
GENERIC_ERROR == "GENERIC_ERROR"

AuthErrorType ==
    { POPUP_BLOCKED, REDIRECT_IN_PROGRESS, SIGN_IN_CANCELLED, UNAUTHORIZED_DOMAIN,
      CONFIGURATION_ERROR, NETWORK_ERROR, ACCOUNT_EXISTS, OPERATION_NOT_ALLOWED,
      INVALID_CREDENTIALS, GENERIC_ERROR }

\* --------------------------------------------------- errors that are caught
\* An error object: its `code` and its `message` (either may be undefined).
Err(code, message) == [code |-> code, message |-> message]

\* new Error(message)
NewError(message) == Err(undefined, message)

KnownCodes ==
    { "auth/cancelled-popup-request", "auth/popup-closed-by-user", "auth/popup-blocked",
      "auth/network-request-failed", "auth/operation-not-allowed",
      "auth/unauthorized-domain", "auth/account-exists-with-different-credential",
      "auth/invalid-api-key", "auth/invalid-oauth-client-id", "auth/user-disabled",
      "auth/user-not-found", "auth/wrong-password", "auth/invalid-email" }

\* Failures of the identity provider: every code the classifier knows, a code
\* it does not know, and errors that carry no code or no message.
ProviderErrors ==
    { Err(c, "Firebase: Error (" \o c \o ").") : c \in KnownCodes }
      \cup { Err("auth/internal-error", "Firebase: Error (auth/internal-error)."),
             Err("auth/internal-error", undefined),
             Err(undefined, "Load failed"),
             Err(undefined, undefined) }

\* Failures of the document store.
StoreErrors == { Err("permission-denied", "Missing or insufficient permissions.") }

\* Failures of the password calls of the provider, and of its sign-out.
PasswordErrors ==
    { Err("auth/wrong-password", "Firebase: Error (auth/wrong-password)."),
      Err("auth/network-request-failed", undefined) }

SignUpErrors ==
    { Err("auth/email-already-in-use", "Firebase: Error (auth/email-already-in-use)."),
      Err("auth/network-request-failed", undefined) }

SignOutErrors == { Err("auth/network-request-failed", undefined) }

\* -------------------------------------------------------- Error Classifier
\* What a block of code ends with: a value it returns or an error it throws.
Thrown(message) == [threw |-> TRUE, message |-> message]
Returned == [threw |-> FALSE, message |-> undefined]

\* Variants of the classifier with one slip each: a known code that falls
\* through to the default branch, a default branch that drops the provider's
\* message, and a final branch that returns instead of throwing.
handleGoogleSignInError_accountExistsUnmapped(error) ==
    IF error.code # undefined
    THEN CASE error.code \in {"auth/cancelled-popup-request", "auth/popup-closed-by-user"} ->
                Thrown(SIGN_IN_CANCELLED)
           [] error.code = "auth/popup-blocked" -> Thrown(POPUP_BLOCKED)
           [] error.code = "auth/network-request-failed" -> Thrown(NETWORK_ERROR)
           [] error.code = "auth/operation-not-allowed" -> Thrown(OPERATION_NOT_ALLOWED)
           [] error.code = "auth/unauthorized-domain" -> Thrown(UNAUTHORIZED_DOMAIN)
           [] error.code \in {"auth/invalid-api-key", "auth/invalid-oauth-client-id"} ->
                Thrown(CONFIGURATION_ERROR)
           [] error.code \in {"auth/user-disabled", "auth/user-not-found",
                              "auth/wrong-password", "auth/invalid-email"} ->
                Thrown(INVALID_CREDENTIALS)
           [] OTHER -> Thrown(GENERIC_ERROR \o ": " \o Template(error.message))
    ELSE Thrown(GENERIC_ERROR \o ": " \o Template(Or(error.message, "Unknown error occurred")))

handleGoogleSignInError_messageDropped(error) ==
    IF error.code # undefined
    THEN CASE error.code \in {"auth/cancelled-popup-request", "auth/popup-closed-by-user"} ->
                Thrown(SIGN_IN_CANCELLED)
           [] error.code = "auth/popup-blocked" -> Thrown(POPUP_BLOCKED)
           [] error.code = "auth/network-request-failed" -> Thrown(NETWORK_ERROR)
           [] error.code = "auth/operation-not-allowed" -> Thrown(OPERATION_NOT_ALLOWED)
           [] error.code = "auth/unauthorized-domain" -> Thrown(UNAUTHORIZED_DOMAIN)
           [] error.code = "auth/account-exists-with-different-credential" ->
                Thrown(ACCOUNT_EXISTS)
           [] error.code \in {"auth/invalid-api-key", "auth/invalid-oauth-client-id"} ->
                Thrown(CONFIGURATION_ERROR)
           [] error.code \in {"auth/user-disabled", "auth/user-not-found",
                              "auth/wrong-password", "auth/invalid-email"} ->
                Thrown(INVALID_CREDENTIALS)
           [] OTHER -> Thrown(GENERIC_ERROR \o ": " \o "Unknown error occurred")
    ELSE Thrown(GENERIC_ERROR \o ": " \o Template(Or(error.message, "Unknown error occurred")))

handleGoogleSignInError_noFinalThrow(error) ==
    IF error.code # undefined
    THEN CASE error.code \in {"auth/cancelled-popup-request", "auth/popup-closed-by-user"} ->
                Thrown(SIGN_IN_CANCELLED)
           [] error.code = "auth/popup-blocked" -> Thrown(POPUP_BLOCKED)
           [] error.code = "auth/network-request-failed" -> Thrown(NETWORK_ERROR)
           [] error.code = "auth/operation-not-allowed" -> Thrown(OPERATION_NOT_ALLOWED)
           [] error.code = "auth/unauthorized-domain" -> Thrown(UNAUTHORIZED_DOMAIN)
           [] error.code = "auth/account-exists-with-different-credential" ->
                Thrown(ACCOUNT_EXISTS)
           [] error.code \in {"auth/invalid-api-key", "auth/invalid-oauth-client-id"} ->
                Thrown(CONFIGURATION_ERROR)
           [] error.code \in {"auth/user-disabled", "auth/user-not-found",
                              "auth/wrong-password", "auth/invalid-email"} ->
                Thrown(INVALID_CREDENTIALS)
           [] OTHER -> Thrown(GENERIC_ERROR \o ": " \o Template(error.message))
    ELSE Returned

handleGoogleSignInError(error) ==
    IF error.code # undefined
    THEN CASE error.code \in {"auth/cancelled-popup-request", "auth/popup-closed-by-user"} ->
                Thrown(SIGN_IN_CANCELLED)
           [] error.code = "auth/popup-blocked" -> Thrown(POPUP_BLOCKED)
           [] error.code = "auth/network-request-failed" -> Thrown(NETWORK_ERROR)
           [] error.code = "auth/operation-not-allowed" -> Thrown(OPERATION_NOT_ALLOWED)
           [] error.code = "auth/unauthorized-domain" -> Thrown(UNAUTHORIZED_DOMAIN)
           [] error.code = "auth/account-exists-with-different-credential" ->
                Thrown(ACCOUNT_EXISTS)
           [] error.code \in {"auth/invalid-api-key", "auth/invalid-oauth-client-id"} ->
                Thrown(CONFIGURATION_ERROR)
           [] error.code \in {"auth/user-disabled", "auth/user-not-found",
                              "auth/wrong-password", "auth/invalid-email"} ->
                Thrown(INVALID_CREDENTIALS)
           [] OTHER -> Thrown(GENERIC_ERROR \o ": " \o Template(error.message))
    ELSE Thrown(GENERIC_ERROR \o ": " \o Template(Or(error.message, "Unknown error occurred")))

\* --------------------------------------------------------- document store
StringFields == {"uid", "email", "displayName", "role", "photoURL"}

\* userData?.field
Field(data, f) == IF f \in DOMAIN data THEN data[f] ELSE undefined

\* userDoc.data(): undefined (no field at all) when the document does not exist
Data(userDoc) == IF userDoc = None THEN << >> ELSE userDoc[1]

\* The store keeps no property whose value is undefined.
Stored(data) ==
    LET keep == {f \in DOMAIN data : f \in StringFields => data[f] # undefined}
    IN  [f \in keep |-> data[f]]

Merge(old, new) ==
    [f \in DOMAIN old \cup DOMAIN new |-> IF f \in DOMAIN new THEN new[f] ELSE old[f]]

\* The collection after setDoc(doc(db, 'users', uid), data, {merge}).
setDoc(coll, uid, data, merge) ==
    LET new == IF merge /\ uid \in DOMAIN coll
               THEN Merge(coll[uid], Stored(data))
               ELSE Stored(data)
    IN  [u \in DOMAIN coll \cup {uid} |-> IF u = uid THEN new ELSE coll[u]]

\* The snapshot getDoc(doc(db, 'users', uid)) resolves with.
getDoc(coll, uid) == IF uid \in DOMAIN coll THEN Some(coll[uid]) ELSE None

\* --------------------------------------------------------- profile records
\* convertFirebaseUser lines 39-48; t1, t2 are its two readings of the clock.
convertFirebaseUser(firebaseUser, userDoc, t1, t2) ==
    LET userData == Data(userDoc)
    IN  [ uid |-> firebaseUser.uid,
          email |-> Or(firebaseUser.email, ""),
          displayName |-> Or(firebaseUser.displayName, Or(Field(userData, "displayName"), "")),
          role |-> Or(Field(userData, "role"), "student"),
          photoURL |-> Or(firebaseUser.photoURL, undefined),
          createdAt |-> IF "createdAt" \in DOMAIN userData THEN userData.createdAt ELSE t1,
          lastLogin |-> t2,
          emailVerified |-> TRUE ]

\* signInWithGoogle lines 165-174 (checkRedirectResult lines 224-233).
NewGoogleProfile(firebaseUser, t1, t2) ==
    [ uid |-> firebaseUser.uid,
      email |-> Or(firebaseUser.email, ""),
      displayName |-> Or(firebaseUser.displayName, ""),
      role |-> "student",
      photoURL |-> Or(firebaseUser.photoURL, undefined),
      createdAt |-> t1,
      lastLogin |-> t2,
      emailVerified |-> TRUE ]

\* signInWithGoogle lines 179-189 (checkRedirectResult lines 236-246).
ExistingGoogleProfile(firebaseUser, existingData, t1, t2) ==
    [ uid |-> firebaseUser.uid,
      email |-> Or(firebaseUser.email, ""),
      displayName |-> Or(firebaseUser.displayName, Or(Field(existingData, "displayName"), "")),
      role |-> Or(Field(existingData, "role"), "student"),
      photoURL |-> Or(firebaseUser.photoURL, Or(Field(existingData, "photoURL"), undefined)),
      createdAt |-> IF "createdAt" \in DOMAIN existingData THEN existingData.createdAt ELSE t1,
      lastLogin |-> t2,
      emailVerified |-> TRUE ]

\* A merge-write that also sends the role of the returned profile.
GoogleMergeData_withRole(firebaseUser, existingData, t3) ==
    [ lastLogin |-> t3,
      photoURL |-> Or(firebaseUser.photoURL, Field(existingData, "photoURL")),
      displayName |-> Or(firebaseUser.displayName, Field(existingData, "displayName")),
      role |-> "student" ]

\* signInWithGoogle lines 191-195 (checkRedirectResult lines 247-251): the merge-write.
GoogleMergeData(firebaseUser, existingData, t3) ==
    [ lastLogin |-> t3,
      photoURL |-> Or(firebaseUser.photoURL, Field(existingData, "photoURL")),
      displayName |-> Or(firebaseUser.displayName, Field(existingData, "displayName")) ]

\* signIn lines 113-115: the merge-write.
SignInMergeData(t) == [lastLogin |-> t]

\* signUp lines 276-284.
NewSignUpProfile(firebaseUser, args, t1, t2) ==
    [ uid |-> firebaseUser.uid,
      email |-> Or(firebaseUser.email, ""),
      displayName |-> args.displayName,
      role |-> args.role,
      createdAt |-> t1,
      lastLogin |-> t2,
      emailVerified |-> TRUE ]

\* ------------------------------------------------------------------ state
VARIABLES
    session,      \* provider: the subject of auth.currentUser, None or Some(uid)
    registered,   \* provider: the subjects that have an identity
    accounts,     \* provider: the subjects that can sign in with a password
    users,        \* store: the 'users' collection, subject id -> document
    now,          \* the clock
    calls,        \* the service calls, by slot
    invoked,      \* how many calls have been invoked
    observing,    \* provider: is the context's auth-state observer attached
    events,       \* provider: auth-state changes not yet delivered to the observer
    pending,      \* the listener callbacks that await convertFirebaseUser
    effect,       \* the subscriber (the AuthProvider's mount effect): where it stands
    user,         \* AuthProvider: the user state, None or Some(profile)
    loading,      \* AuthProvider: the loading state
    mounted       \* AuthProvider: its cleanup has not run

ctxVars == <<observing, pending, effect, user, loading, mounted>>

vars == <<session, registered, accounts, users, now, calls, invoked, events, ctxVars>>

CallIds == 1..MaxCalls

Idle ==
    [ op |-> "none", pc |-> "idle", via |-> "none", useRedirect |-> FALSE,
      args |-> None, firebaseUser |-> None,
      userData |-> None, write |-> None, outcome |-> "none", result |-> None,
      message |-> undefined, caught |-> None ]

Init ==
    /\ session = None
    /\ registered = {}
    /\ accounts = {}
    /\ users = [u \in {} |-> << >>]
    /\ now = 1
    /\ calls = [c \in CallIds |-> Idle]
    /\ invoked = 0
    /\ observing = FALSE
    /\ events = << >>
    /\ pending = {}
    /\ effect = "unmounted"
    /\ user = None          \* part_000 line 24
    /\ loading = TRUE       \* part_000 line 25
    /\ mounted = TRUE

\* The continuation of a settled promise runs before any other completion
\* is delivered: while a call is settled and not yet taken, nothing else runs.
Settled == \E c \in CallIds : calls[c].pc \in {"done", "returned"}

\* The provider calls its observers before any promise continuation runs.
Quiet == events = << >>

At(c, op, pc) == Quiet /\ ~Settled /\ calls[c].op = op /\ calls[c].pc = pc

\* Readings of a clock that never runs backwards.
Clock2(t1, t2) == t1 \in Times /\ t2 \in Times /\ now <= t1 /\ t1 <= t2
Clock3(t1, t2, t3) == Clock2(t1, t2) /\ t3 \in Times /\ t2 <= t3

\* The provider replaces auth.currentUser by `new`, the subject of
\* firebaseUser (None, None when it signs out), and tells the attached observer
\* when the subject changed.
SetSession(new, firebaseUser) ==
    /\ session' = new
    /\ events' = IF observing /\ new # session THEN Append(events, firebaseUser) ELSE events

\* The call's promise settles.
Resolve(c, result) ==
    calls' = [calls EXCEPT ![c].pc = "done", ![c].outcome = "resolved", ![c].result = result]

Reject(c, error, message) ==
    calls' = [calls EXCEPT ![c].pc = "done", ![c].outcome = "rejected",
                           ![c].caught = Some(error), ![c].message = message]

\* A catch block that ends with `ending`: the promise rejects with what it
\* throws, or resolves with undefined when it returns.
Catch(c, error, ending) ==
    IF ending.threw THEN Reject(c, error, ending.message)
    ELSE calls' = [calls EXCEPT ![c].pc = "done", ![c].outcome = "resolved",
                                ![c].caught = Some(error), ![c].result = None]

\* ------------------------------------------------------ calling the service
\* A caller invokes an operation; it runs to its first await.
FirstAwait(op, useRedirect) ==
    CASE op = "signIn" -> "signInWithEmailAndPassword"
      [] op = "signInWithGoogle" -> IF useRedirect THEN "signInWithRedirect" ELSE "signInWithPopup"
      [] op = "checkRedirectResult" -> "getRedirectResult"
      [] op = "signUp" -> "createUserWithEmailAndPassword"
      [] op = "signOut" -> "firebaseSignOut"
      [] op = "getCurrentUser" -> "onAuthStateChanged"

Operations ==
    {"signIn", "signInWithGoogle", "checkRedirectResult", "signUp", "signOut", "getCurrentUser"}

FreeSlot(c) == calls[c] = Idle /\ \A d \in CallIds : d < c => calls[d] # Idle

Invoke(c) ==
    /\ Quiet /\ ~Settled
    /\ FreeSlot(c)
    /\ invoked < MaxOps
    /\ invoked' = invoked + 1
    /\ \E op \in Operations :
       \E useRedirect \in (IF op = "signInWithGoogle" THEN BOOLEAN ELSE {FALSE}) :
       \E args \in (IF op = "signUp" THEN {Some(a) : a \in SignUpArgs} ELSE {None}) :
          calls' = [calls EXCEPT ![c] =
                [Idle EXCEPT !.op = op, !.pc = FirstAwait(op, useRedirect),
                             !.via = "direct", !.useRedirect = useRedirect,
                             !.outcome = "pending", !.args = args]]
    /\ UNCHANGED <<session, events, registered, accounts, users, now, ctxVars>>

\* The caller has taken the settled promise's value.
Drop(c) ==
    /\ Quiet
    /\ \/ calls[c].pc = "done" /\ calls[c].via = "direct"
       \/ calls[c].pc = "returned"
    /\ calls' = [calls EXCEPT ![c] = Idle]
    /\ UNCHANGED <<session, events, registered, accounts, users, now, invoked, ctxVars>>

\* ------------------------------------------------------------------ signIn
\* A catch block that throws the default message whatever it caught.
signIn_catch_defaultOnly(error) == Thrown("Failed to sign in")

\* A catch block that classifies the failure as the Google operations do.
signIn_catch_classified(error) == handleGoogleSignInError(error)

\* lines 118-121
signIn_catch(error) == Thrown(Or(error.message, "Failed to sign in"))

\* line 105
signIn_signInWithEmailAndPassword(c) ==
    /\ At(c, "signIn", "signInWithEmailAndPassword")
    /\ \/ \E u \in accounts : \E fb \in FirebaseUsers(u) :
            /\ SetSession(Some(u), Some(fb))
            /\ calls' = [calls EXCEPT ![c].pc = "getDoc", ![c].firebaseUser = Some(fb)]
       \/ \E e \in PasswordErrors :
            /\ Catch(c, e, signIn_catch(e))
            /\ UNCHANGED <<session, events>>
    /\ UNCHANGED <<registered, accounts, users, now, invoked, ctxVars>>

\* lines 106-115: convertFirebaseUser, the null check, the call of setDoc
signIn_getDoc(c) ==
    /\ At(c, "signIn", "getDoc")
    /\ LET fb == calls[c].firebaseUser[1] IN
       \/ \E t1, t2, t3 \in Times :
            /\ Clock3(t1, t2, t3)
            /\ now' = t3
            /\ calls' = [calls EXCEPT
                  ![c].pc = "setDoc",
                  ![c].userData = Some(convertFirebaseUser(fb, getDoc(users, fb.uid), t1, t2)),
                  ![c].write = Some([data |-> SignInMergeData(t3), merge |-> TRUE])]
       \/ \E e \in StoreErrors :    \* convertFirebaseUser catches e and returns null
            /\ Catch(c, NewError("Failed to get user data"),
                     signIn_catch(NewError("Failed to get user data")))
            /\ UNCHANGED now
    /\ UNCHANGED <<session, events, registered, accounts, users, invoked, ctxVars>>

\* lines 113-117
signIn_setDoc(c) ==
    /\ At(c, "signIn", "setDoc")
    /\ LET userData == calls[c].userData[1]
           w == calls[c].write[1] IN
       \/ /\ users' = setDoc(users, userData.uid, w.data, w.merge)
          /\ Resolve(c, Some(userData))
       \/ \E e \in StoreErrors :
            /\ Catch(c, e, signIn_catch(e))
            /\ UNCHANGED users
    /\ UNCHANGED <<session, events, registered, accounts, now, invoked, ctxVars>>

\* -------------------------------------- signInWithGoogle, checkRedirectResult
\* lines 160-196 (220-252): the profile to return and the write to make, from
\* the snapshot that getDoc resolved with.
GoogleUserData(firebaseUser, userDoc, t1, t2) ==
    IF userDoc = None
    THEN NewGoogleProfile(firebaseUser, t1, t2)
    ELSE ExistingGoogleProfile(firebaseUser, Data(userDoc), t1, t2)

GoogleWrite(firebaseUser, userDoc, userData, t3) ==
    IF userDoc = None
    THEN [data |-> userData, merge |-> FALSE]
    ELSE [data |-> GoogleMergeData(firebaseUser, Data(userDoc), t3), merge |-> TRUE]

\* line 144-145
signInWithGoogle_signInWithRedirect(c) ==
    /\ At(c, "signInWithGoogle", "signInWithRedirect")
    /\ \/ Catch(c, NewError(REDIRECT_IN_PROGRESS),
                handleGoogleSignInError(NewError(REDIRECT_IN_PROGRESS)))
       \/ \E e \in ProviderErrors : Catch(c, e, handleGoogleSignInError(e))
    /\ UNCHANGED <<session, events, registered, accounts, users, now, invoked, ctxVars>>

\* line 148
signInWithGoogle_signInWithPopup(c) ==
    /\ At(c, "signInWithGoogle", "signInWithPopup")
    /\ \/ \E u \in Uid : \E fb \in FirebaseUsers(u) :
            /\ SetSession(Some(u), Some(fb))
            /\ registered' = registered \cup {u}
            /\ calls' = [calls EXCEPT ![c].pc = "getDoc", ![c].firebaseUser = Some(fb)]
       \/ \E e \in ProviderErrors :
            /\ Catch(c, e, handleGoogleSignInError(e))
            /\ UNCHANGED <<session, events, registered>>
    /\ UNCHANGED <<accounts, users, now, invoked, ctxVars>>

\* A checkRedirectResult that fails when there is no redirect result.
checkRedirectResult_getRedirectResult_noResultFails(c) ==
    /\ At(c, "checkRedirectResult", "getRedirectResult")
    /\ \/ \E u \in Uid : \E fb \in FirebaseUsers(u) :
            /\ SetSession(Some(u), Some(fb))
            /\ registered' = registered \cup {u}
            /\ calls' = [calls EXCEPT ![c].pc = "getDoc", ![c].firebaseUser = Some(fb)]
       \/ /\ Reject(c, NewError("No redirect result"), GENERIC_ERROR \o ": No redirect result")
          /\ UNCHANGED <<session, events, registered>>
       \/ \E e \in ProviderErrors :
            /\ Catch(c, e, handleGoogleSignInError(e))
            /\ UNCHANGED <<session, events, registered>>
    /\ UNCHANGED <<accounts, users, now, invoked, ctxVars>>

\* line 208
checkRedirectResult_getRedirectResult(c) ==
    /\ At(c, "checkRedirectResult", "getRedirectResult")
    /\ \/ \E u \in Uid : \E fb \in FirebaseUsers(u) :
            /\ SetSession(Some(u), Some(fb))
            /\ registered' = registered \cup {u}
            /\ calls' = [calls EXCEPT ![c].pc = "getDoc", ![c].firebaseUser = Some(fb)]
       \/ /\ Resolve(c, None)
          /\ UNCHANGED <<session, events, registered>>
       \/ \E e \in ProviderErrors :
            /\ Catch(c, e, handleGoogleSignInError(e))
            /\ UNCHANGED <<session, events, registered>>
    /\ UNCHANGED <<accounts, users, now, invoked, ctxVars>>

\* lines 160-195 (220-251), up to the call of setDoc
Google_getDoc(c) ==
    /\ \/ At(c, "signInWithGoogle", "getDoc")
       \/ At(c, "checkRedirectResult", "getDoc")
    /\ LET fb == calls[c].firebaseUser[1]
           userDoc == getDoc(users, fb.uid) IN
       \/ \E t1, t2, t3 \in Times :
            /\ Clock3(t1, t2, t3)
            /\ now' = t3
            /\ LET userData == GoogleUserData(fb, userDoc, t1, t2) IN
               calls' = [calls EXCEPT
                  ![c].pc = "setDoc",
                  ![c].userData = Some(userData),
                  ![c].write = Some(GoogleWrite(fb, userDoc, userData, t3))]
       \/ \E e \in StoreErrors :
            /\ Catch(c, e, handleGoogleSignInError(e))
            /\ UNCHANGED now
    /\ UNCHANGED <<session, events, registered, accounts, users, invoked, ctxVars>>

\* The write step with a catch block that rethrows the store's error as it is.
Google_setDoc_rawStoreError(c) ==
    /\ \/ At(c, "signInWithGoogle", "setDoc")
       \/ At(c, "checkRedirectResult", "setDoc")
    /\ LET userData == calls[c].userData[1]
           w == calls[c].write[1] IN
       \/ /\ users' = setDoc(users, userData.uid, w.data, w.merge)
          /\ Resolve(c, Some(userData))
       \/ \E e \in StoreErrors :
            /\ Reject(c, e, e.message)
            /\ UNCHANGED users
    /\ UNCHANGED <<session, events, registered, accounts, now, invoked, ctxVars>>

\* lines 176, 191-198 (234, 247-254)
Google_setDoc(c) ==
    /\ \/ At(c, "signInWithGoogle", "setDoc")
       \/ At(c, "checkRedirectResult", "setDoc")
    /\ LET userData == calls[c].userData[1]
           w == calls[c].write[1] IN
       \/ /\ users' = setDoc(users, userData.uid, w.data, w.merge)
          /\ Resolve(c, Some(userData))
       \/ \E e \in StoreErrors :
            /\ Catch(c, e, handleGoogleSignInError(e))
            /\ UNCHANGED users
    /\ UNCHANGED <<session, events, registered, accounts, now, invoked, ctxVars>>

\* ------------------------------------------------------------------ signUp
signUp_catch(error) == Thrown(Or(error.message, "Failed to create account"))

\* line 270
signUp_createUserWithEmailAndPassword(c) ==
    /\ At(c, "signUp", "createUserWithEmailAndPassword")
    /\ \/ \E u \in Uid \ registered :
            LET fb == [uid |-> u, email |-> calls[c].args[1].email,
                       displayName |-> null, photoURL |-> null] IN
            /\ SetSession(Some(u), Some(fb))
            /\ registered' = registered \cup {u}
            /\ accounts' = accounts \cup {u}
            /\ calls' = [calls EXCEPT ![c].pc = "updateProfile", ![c].firebaseUser = Some(fb)]
       \/ \E e \in SignUpErrors :
            /\ Catch(c, e, signUp_catch(e))
            /\ UNCHANGED <<session, events, registered, accounts>>
    /\ UNCHANGED <<users, now, invoked, ctxVars>>

\* lines 272-286, up to the call of setDoc
signUp_updateProfile(c) ==
    /\ At(c, "signUp", "updateProfile")
    /\ LET fb == calls[c].firebaseUser[1]
           args == calls[c].args[1] IN
       \/ \E t1, t2 \in Times :
            /\ Clock2(t1, t2)
            /\ now' = t2
            /\ LET userData == NewSignUpProfile(fb, args, t1, t2) IN
               calls' = [calls EXCEPT
                  ![c].pc = "setDoc",
                  ![c].userData = Some(userData),
                  ![c].write = Some([data |-> userData, merge |-> FALSE])]
       \/ \E e \in SignUpErrors :
            /\ Catch(c, e, signUp_catch(e))
            /\ UNCHANGED now
    /\ UNCHANGED <<session, events, registered, accounts, users, invoked, ctxVars>>

\* A signUp that terminates the session while it writes the profile.
signUp_setDoc_signsOutAtOnce(c) ==
    /\ At(c, "signUp", "setDoc")
    /\ LET userData == calls[c].userData[1]
           w == calls[c].write[1] IN
       /\ users' = setDoc(users, userData.uid, w.data, w.merge)
       /\ SetSession(None, None)
       /\ Resolve(c, calls[c].userData)
    /\ UNCHANGED <<registered, accounts, now, invoked, ctxVars>>

\* line 286
signUp_setDoc(c) ==
    /\ At(c, "signUp", "setDoc")
    /\ LET userData == calls[c].userData[1]
           w == calls[c].write[1] IN
       \/ /\ users' = setDoc(users, userData.uid, w.data, w.merge)
          /\ calls' = [calls EXCEPT ![c].pc = "firebaseSignOut"]
       \/ \E e \in StoreErrors :
            /\ Catch(c, e, signUp_catch(e))
            /\ UNCHANGED users
    /\ UNCHANGED <<session, events, registered, accounts, now, invoked, ctxVars>>

\* signUp without its sign-out: the new session is left in place.
signUp_firebaseSignOut_skipped(c) ==
    /\ At(c, "signUp", "firebaseSignOut")
    /\ Resolve(c, calls[c].userData)
    /\ UNCHANGED <<session, events, registered, accounts, users, now, invoked, ctxVars>>

\* lines 289-291
signUp_firebaseSignOut(c) ==
    /\ At(c, "signUp", "firebaseSignOut")
    /\ \/ /\ SetSession(None, None)
          /\ Resolve(c, calls[c].userData)
       \/ \E e \in SignOutErrors :
            /\ Catch(c, e, signUp_catch(e))
            /\ UNCHANGED <<session, events>>
    /\ UNCHANGED <<registered, accounts, users, now, invoked, ctxVars>>

\* ----------------------------------------------------------------- signOut
signOut_catch(error) == Thrown(Or(error.message, "Failed to sign out"))

\* A sign-out that refuses to run when there is no session.
signOut_firebaseSignOut_requiresSession(c) ==
    /\ At(c, "signOut", "firebaseSignOut")
    /\ \/ /\ session # None
          /\ SetSession(None, None)
          /\ Resolve(c, None)
       \/ /\ session = None
          /\ Reject(c, NewError("No user is signed in"), "No user is signed in")
          /\ UNCHANGED <<session, events>>
       \/ \E e \in SignOutErrors :
            /\ Catch(c, e, signOut_catch(e))
            /\ UNCHANGED <<session, events>>
    /\ UNCHANGED <<registered, accounts, users, now, invoked, ctxVars>>

\* line 300
signOut_firebaseSignOut(c) ==
    /\ At(c, "signOut", "firebaseSignOut")
    /\ \/ /\ SetSession(None, None)
          /\ Resolve(c, None)
       \/ \E e \in SignOutErrors :
            /\ Catch(c, e, signOut_catch(e))
            /\ UNCHANGED <<session, events>>
    /\ UNCHANGED <<registered, accounts, users, now, invoked, ctxVars>>

\* ---------------------------------------------------------- getCurrentUser
\* lines 309-316: the observer is called with the current user and detaches
getCurrentUser_onAuthStateChanged(c) ==
    /\ At(c, "getCurrentUser", "onAuthStateChanged")
    /\ IF session # None
       THEN \E fb \in FirebaseUsers(session[1]) :
               calls' = [calls EXCEPT ![c].pc = "getDoc", ![c].firebaseUser = Some(fb)]
       ELSE Resolve(c, None)
    /\ UNCHANGED <<session, events, registered, accounts, users, now, invoked, ctxVars>>

\* A getCurrentUser that stores the profile it resolves with.
getCurrentUser_getDoc_createsProfile(c) ==
    /\ At(c, "getCurrentUser", "getDoc")
    /\ LET fb == calls[c].firebaseUser[1] IN
       \E t1, t2 \in Times :
          /\ Clock2(t1, t2)
          /\ now' = t2
          /\ LET userData == convertFirebaseUser(fb, getDoc(users, fb.uid), t1, t2) IN
             /\ users' = setDoc(users, fb.uid, userData, TRUE)
             /\ Resolve(c, Some(userData))
    /\ UNCHANGED <<session, events, registered, accounts, invoked, ctxVars>>

\* lines 312-313: convertFirebaseUser, then resolve
getCurrentUser_getDoc(c) ==
    /\ At(c, "getCurrentUser", "getDoc")
    /\ LET fb == calls[c].firebaseUser[1] IN
       \/ \E t1, t2 \in Times :
            /\ Clock2(t1, t2)
            /\ now' = t2
            /\ Resolve(c, Some(convertFirebaseUser(fb, getDoc(users, fb.uid), t1, t2)))
       \/ \E e \in StoreErrors :    \* convertFirebaseUser catches e and returns null
            /\ Resolve(c, None)
            /\ UNCHANGED now
    /\ UNCHANGED <<session, events, registered, accounts, users, invoked, ctxVars>>

\* ------------------------------------------------- onAuthStateChange (service)
\* lines 322-329: the observer is called with the next auth-state change.
\* A null user is passed on at once; a user is converted first.
onAuthStateChange_observer ==
    /\ events # << >>
    /\ LET firebaseUser == Head(events) IN
       IF firebaseUser = None
       THEN /\ user' = None              \* part_000 lines 43-44
            /\ loading' = FALSE
            /\ UNCHANGED pending
       ELSE /\ pending' = pending \cup {firebaseUser[1]}
            /\ UNCHANGED <<user, loading>>
    /\ events' = Tail(events)
    /\ UNCHANGED <<session, registered, accounts, users, now, calls, invoked,
                   observing, effect, mounted>>

\* A listener that records the login in the store before it calls back.
onAuthStateChange_getDoc_writesLastLogin ==
    /\ Quiet /\ ~Settled
    /\ \E fb \in pending :
         /\ pending' = pending \ {fb}
         /\ \E t1, t2 \in Times :
               /\ Clock2(t1, t2)
               /\ now' = t2
               /\ user' = Some(convertFirebaseUser(fb, getDoc(users, fb.uid), t1, t2))
               /\ users' = setDoc(users, fb.uid, SignInMergeData(t2), TRUE)
         /\ loading' = FALSE
    /\ UNCHANGED <<session, events, registered, accounts, calls, invoked,
                   observing, effect, mounted>>

\* lines 324-325: convertFirebaseUser resolves, the callback is called
onAuthStateChange_getDoc ==
    /\ Quiet /\ ~Settled
    /\ \E fb \in pending :
         /\ pending' = pending \ {fb}
         /\ \/ \E t1, t2 \in Times :
                 /\ Clock2(t1, t2)
                 /\ now' = t2
                 /\ user' = Some(convertFirebaseUser(fb, getDoc(users, fb.uid), t1, t2))
            \/ \E e \in StoreErrors :    \* convertFirebaseUser catches e and returns null
                 /\ user' = None
                 /\ UNCHANGED now
         /\ loading' = FALSE
    /\ UNCHANGED <<session, events, registered, accounts, users, calls, invoked,
                   observing, effect, mounted>>

\* line 322: a caller subscribes a listener; the provider attaches the observer
\* and will call it first with the current user.
onAuthStateChange_subscribe ==
    /\ Quiet /\ ~Settled
    /\ effect = "unmounted"
    /\ effect' = "listening"
    /\ observing' = TRUE
    /\ \E fb \in (IF session = None THEN {None}
                  ELSE {Some(f) : f \in FirebaseUsers(session[1])}) :
          events' = Append(events, fb)
    /\ UNCHANGED <<session, registered, accounts, users, now, calls, invoked,
                   pending, user, loading, mounted>>

\* An unsubscribe that leaves the observer attached.
onAuthStateChange_unsubscribe_keepsObserver ==
    /\ \/ /\ effect = "listening"
          /\ effect' = "unsubscribed"
       \/ /\ effect = "unsubscribed"
          /\ effect' = "unsubscribed twice"
    /\ UNCHANGED <<session, registered, accounts, users, now, calls, invoked,
                   observing, events, pending, user, loading, mounted>>

\* line 322: the function onAuthStateChange returned is the provider's own
\* unsubscribe. The first call detaches the observer, which is then not called
\* for the changes it has not been told yet; a second call finds nothing to detach.
onAuthStateChange_unsubscribe ==
    /\ \/ /\ effect = "listening"
          /\ effect' = "unsubscribed"
          /\ observing' = FALSE
          /\ events' = << >>
       \/ /\ effect = "unsubscribed"
          /\ effect' = "unsubscribed twice"
          /\ UNCHANGED <<observing, events>>
    /\ UNCHANGED <<session, registered, accounts, users, now, calls, invoked,
                   pending, user, loading, mounted>>

\* ------------------------------------------------------ AuthProvider (context)
\* part_000 lines 27-31, 50: the mount effect calls checkRedirectResult
AuthProvider_useEffect(c) ==
    /\ Quiet /\ ~Settled
    /\ effect = "unmounted"
    /\ FreeSlot(c)
    /\ effect' = "checkRedirectResult"
    /\ calls' = [calls EXCEPT ![c] =
          [Idle EXCEPT !.op = "checkRedirectResult", !.pc = "getRedirectResult",
                       !.via = "effect", !.outcome = "pending"]]
    /\ UNCHANGED <<session, events, registered, accounts, users, now, invoked,
                   observing, pending, user, loading, mounted>>

\* A mount effect that attaches the listener whatever checkRedirectResult gave.
AuthProvider_handleRedirectResult_alwaysListens(c) ==
    /\ Quiet
    /\ calls[c].pc = "done" /\ calls[c].via = "effect"
    /\ calls' = [calls EXCEPT ![c] = Idle]
    /\ IF calls[c].outcome = "resolved" /\ calls[c].result # None
       THEN user' = calls[c].result /\ loading' = FALSE
       ELSE UNCHANGED <<user, loading>>
    /\ observing' = TRUE
    /\ effect' = "listening"
    /\ \E fb \in (IF session = None THEN {None}
                  ELSE {Some(f) : f \in FirebaseUsers(session[1])}) :
          events' = Append(events, fb)
    /\ UNCHANGED <<session, registered, accounts, users, now, invoked, pending, mounted>>

\* part_000 lines 31-47: checkRedirectResult has settled
AuthProvider_handleRedirectResult(c) ==
    /\ Quiet
    /\ calls[c].pc = "done" /\ calls[c].via = "effect"
    /\ calls' = [calls EXCEPT ![c] = Idle]
    /\ IF calls[c].outcome = "resolved" /\ calls[c].result # None
       THEN /\ user' = calls[c].result
            /\ loading' = FALSE
            /\ effect' = "adopted"
            /\ UNCHANGED <<observing, events>>
       ELSE \* no redirect user, or the failure was logged: attach the listener,
            \* which the provider first calls with the current user
            /\ observing' = TRUE
            /\ effect' = "listening"
            /\ \E fb \in (IF session = None THEN {None}
                          ELSE {Some(f) : f \in FirebaseUsers(session[1])}) :
                  events' = Append(events, fb)
            /\ UNCHANGED <<user, loading>>
    /\ UNCHANGED <<session, registered, accounts, users, now, invoked, pending, mounted>>

\* part_000 lines 58-59, 71-72, 102-103, 115-116: a component calls an
\* operation of the context, which sets loading and calls the service
ContextOperations == {"signIn", "signInWithGoogle", "signUp", "signOut"}

AuthProvider_call(c) ==
    /\ Quiet /\ ~Settled
    /\ effect # "unmounted"
    /\ mounted
    /\ FreeSlot(c)
    /\ invoked < MaxContextOps
    /\ invoked' = invoked + 1
    /\ loading' = TRUE
    /\ \E op \in ContextOperations :
       \E args \in (IF op = "signUp" THEN {Some(a) : a \in SignUpArgs} ELSE {None}) :
          calls' = [calls EXCEPT ![c] =
                [Idle EXCEPT !.op = op, !.pc = FirstAwait(op, FALSE),
                             !.via = "context", !.outcome = "pending", !.args = args]]
    /\ UNCHANGED <<session, events, registered, accounts, users, now,
                   observing, pending, effect, user, mounted>>

\* The promise of the context operation settles.
Return(c) ==
    calls' = [calls EXCEPT ![c].pc = "returned", ![c].outcome = "resolved",
                           ![c].result = None]

Throw(c, message) ==
    calls' = [calls EXCEPT ![c].pc = "returned", ![c].outcome = "rejected",
                           ![c].result = None, ![c].message = message]

ServiceSettled(c, op) ==
    /\ Quiet
    /\ calls[c].pc = "done" /\ calls[c].via = "context" /\ calls[c].op = op

\* A signIn with no finally block: loading is cleared on success only.
AuthProvider_signIn_noFinally(c) ==
    /\ ServiceSettled(c, "signIn")
    /\ IF calls[c].outcome = "resolved"
       THEN user' = calls[c].result /\ Return(c) /\ loading' = FALSE
       ELSE UNCHANGED <<user, loading>> /\ Throw(c, calls[c].message)
    /\ UNCHANGED <<session, events, registered, accounts, users, now, invoked,
                   observing, pending, effect, mounted>>

\* part_000 lines 61-68
AuthProvider_signIn(c) ==
    /\ ServiceSettled(c, "signIn")
    /\ IF calls[c].outcome = "resolved"
       THEN user' = calls[c].result /\ Return(c)
       ELSE UNCHANGED user /\ Throw(c, calls[c].message)
    /\ loading' = FALSE
    /\ UNCHANGED <<session, events, registered, accounts, users, now, invoked,
                   observing, pending, effect, mounted>>

\* part_000 lines 105-112
AuthProvider_signUp(c) ==
    /\ ServiceSettled(c, "signUp")
    /\ IF calls[c].outcome = "resolved"
       THEN user' = calls[c].result /\ Return(c)
       ELSE UNCHANGED user /\ Throw(c, calls[c].message)
    /\ loading' = FALSE
    /\ UNCHANGED <<session, events, registered, accounts, users, now, invoked,
                   observing, pending, effect, mounted>>

\* A signOut that clears the user whether the service succeeded or not.
AuthProvider_signOut_clearsAlways(c) ==
    /\ ServiceSettled(c, "signOut")
    /\ IF calls[c].outcome = "resolved"
       THEN Return(c)
       ELSE Throw(c, calls[c].message)
    /\ user' = None
    /\ loading' = FALSE
    /\ UNCHANGED <<session, events, registered, accounts, users, now, invoked,
                   observing, pending, effect, mounted>>

\* part_000 lines 118-125
AuthProvider_signOut(c) ==
    /\ ServiceSettled(c, "signOut")
    /\ IF calls[c].outcome = "resolved"
       THEN user' = None /\ Return(c)
       ELSE UNCHANGED user /\ Throw(c, calls[c].message)
    /\ loading' = FALSE
    /\ UNCHANGED <<session, events, registered, accounts, users, now, invoked,
                   observing, pending, effect, mounted>>

\* A signInWithGoogle that tries the redirect after any failure of the popup.
AuthProvider_signInWithGoogle_retriesAlways(c) ==
    /\ ServiceSettled(c, "signInWithGoogle")
    /\ ~calls[c].useRedirect
    /\ IF calls[c].outcome = "resolved"
       THEN /\ user' = calls[c].result
            /\ loading' = FALSE
            /\ Return(c)
       ELSE /\ calls' = [calls EXCEPT ![c] =
                  [Idle EXCEPT !.op = "signInWithGoogle", !.pc = "signInWithRedirect",
                               !.via = "context", !.useRedirect = TRUE,
                               !.outcome = "pending"]]
            /\ UNCHANGED <<user, loading>>
    /\ UNCHANGED <<session, events, registered, accounts, users, now, invoked,
                   observing, pending, effect, mounted>>

\* part_000 lines 75-99: authSignInWithGoogle(false) has settled
AuthProvider_signInWithGoogle(c) ==
    /\ ServiceSettled(c, "signInWithGoogle")
    /\ ~calls[c].useRedirect
    /\ IF calls[c].outcome = "resolved"
       THEN /\ user' = calls[c].result
            /\ loading' = FALSE
            /\ Return(c)
       ELSE IF calls[c].message = "POPUP_BLOCKED"
       THEN \* line 83: try the redirect method
            /\ calls' = [calls EXCEPT ![c] =
                  [Idle EXCEPT !.op = "signInWithGoogle", !.pc = "signInWithRedirect",
                               !.via = "context", !.useRedirect = TRUE,
                               !.outcome = "pending"]]
            /\ UNCHANGED <<user, loading>>
       ELSE /\ loading' = FALSE
            /\ Throw(c, calls[c].message)
            /\ UNCHANGED user
    /\ UNCHANGED <<session, events, registered, accounts, users, now, invoked,
                   observing, pending, effect, mounted>>

\* A redirect retry whose failures are all taken for a redirect in progress.
AuthProvider_signInWithGoogle_redirect_hidesFailure(c) ==
    /\ ServiceSettled(c, "signInWithGoogle")
    /\ calls[c].useRedirect
    /\ UNCHANGED loading
    /\ Return(c)
    /\ UNCHANGED <<session, events, registered, accounts, users, now, invoked,
                   observing, pending, effect, user, mounted>>

\* part_000 lines 83-93: authSignInWithGoogle(true) has settled
AuthProvider_signInWithGoogle_redirect(c) ==
    /\ ServiceSettled(c, "signInWithGoogle")
    /\ calls[c].useRedirect
    /\ IF calls[c].outcome = "rejected" /\ calls[c].message # "REDIRECT_IN_PROGRESS"
       THEN /\ loading' = FALSE
            /\ Throw(c, "Google sign-in failed. Please try again or use email/password.")
       ELSE /\ UNCHANGED loading
            /\ Return(c)
    /\ UNCHANGED <<session, events, registered, accounts, users, now, invoked,
                   observing, pending, effect, user, mounted>>

\* part_000 lines 50-55: the component unmounts and the cleanup of the effect
\* runs. `unsubscribe` is the promise that handleRedirectResult() returned, not
\* a function, so the test of line 52 fails and nothing is detached. The
\* callbacks that run afterwards still call setUser and setLoading.
AuthProvider_cleanup ==
    /\ Quiet /\ ~Settled
    /\ mounted /\ effect # "unmounted"
    /\ mounted' = FALSE
    /\ UNCHANGED <<session, events, registered, accounts, users, now, calls, invoked,
                   observing, pending, effect, user, loading>>

\* ------------------------------------------------------------ specification
Next ==
    \E c \in CallIds :
       \/ Invoke(c)
       \/ Drop(c)
       \/ signIn_signInWithEmailAndPassword(c)
       \/ signIn_getDoc(c)
       \/ signIn_setDoc(c)
       \/ signInWithGoogle_signInWithRedirect(c)
       \/ signInWithGoogle_signInWithPopup(c)
       \/ checkRedirectResult_getRedirectResult(c)
       \/ Google_getDoc(c)
       \/ Google_setDoc(c)
       \/ signUp_createUserWithEmailAndPassword(c)
       \/ signUp_updateProfile(c)
       \/ signUp_setDoc(c)
       \/ signUp_firebaseSignOut(c)
       \/ signOut_firebaseSignOut(c)
       \/ getCurrentUser_onAuthStateChanged(c)
       \/ getCurrentUser_getDoc(c)

Spec == Init /\ [][Next]_vars

\* The application: the AuthProvider is mounted and components call its operations.
ContextNext ==
    \/ onAuthStateChange_observer
    \/ onAuthStateChange_getDoc
    \/ \E c \in CallIds :
       \/ AuthProvider_useEffect(c)
       \/ AuthProvider_handleRedirectResult(c)
       \/ AuthProvider_call(c)
       \/ AuthProvider_signIn(c)
       \/ AuthProvider_signUp(c)
       \/ AuthProvider_signOut(c)
       \/ AuthProvider_signInWithGoogle(c)
       \/ AuthProvider_signInWithGoogle_redirect(c)
       \/ Drop(c)
       \/ signIn_signInWithEmailAndPassword(c)
       \/ signIn_getDoc(c)
       \/ signIn_setDoc(c)
       \/ signInWithGoogle_signInWithRedirect(c)
       \/ signInWithGoogle_signInWithPopup(c)
       \/ checkRedirectResult_getRedirectResult(c)
       \/ Google_getDoc(c)
       \/ Google_setDoc(c)
       \/ signUp_createUserWithEmailAndPassword(c)
       \/ signUp_updateProfile(c)
       \/ signUp_setDoc(c)
       \/ signUp_firebaseSignOut(c)
       \/ signOut_firebaseSignOut(c)

ContextSpec == Init /\ [][ContextNext]_vars

\* A caller of onAuthStateChange that keeps the function it returns and calls
\* it, while the operations of the service are called.
Subscriber_invoke(c) == invoked < MaxSubscriptionOps /\ Invoke(c)

SubscriptionNext ==
    \/ onAuthStateChange_subscribe
    \/ onAuthStateChange_unsubscribe
    \/ onAuthStateChange_observer
    \/ onAuthStateChange_getDoc
    \/ \E c \in CallIds :
       \/ Subscriber_invoke(c)
       \/ Drop(c)
       \/ signIn_signInWithEmailAndPassword(c)
       \/ signIn_getDoc(c)
       \/ signIn_setDoc(c)
       \/ signInWithGoogle_signInWithRedirect(c)
       \/ signInWithGoogle_signInWithPopup(c)
       \/ checkRedirectResult_getRedirectResult(c)
       \/ Google_getDoc(c)
       \/ Google_setDoc(c)
       \/ signUp_createUserWithEmailAndPassword(c)
       \/ signUp_updateProfile(c)
       \/ signUp_setDoc(c)
       \/ signUp_firebaseSignOut(c)
       \/ signOut_firebaseSignOut(c)
       \/ getCurrentUser_onAuthStateChanged(c)
       \/ getCurrentUser_getDoc(c)

SubscriptionSpec == Init /\ [][SubscriptionNext]_vars

\* The application with the AuthProvider unmounting at some point.
UnmountNext ==
    \/ AuthProvider_cleanup
    \/ ContextNext

UnmountSpec == Init /\ [][UnmountNext]_vars

\* ================================================================== claims
GoogleOps == {"signInWithGoogle", "checkRedirectResult"}

\* The service promise of call c has settled and its caller has not yet run.
ServiceDone(c) == calls[c].pc = "done" /\ calls[c].via = "direct"

\* Call c went into the catch block of a Google operation with error e.
GoogleCaught(c, e) ==
    ServiceDone(c) /\ calls[c].op \in GoogleOps /\ calls[c].caught = Some(e)

\* The provider's redirect call of c completed without failure: what the
\* operation's catch block caught is the error thrown on line 145.
RedirectInitiated(c) ==
    /\ calls[c].op = "signInWithGoogle" /\ calls[c].useRedirect
    /\ calls[c].caught = Some(NewError(REDIRECT_IN_PROGRESS))

\* C1: when the popup attempt of the context's signInWithGoogle was blocked
\* and the provider then initiated the redirect, the context call resolves
\* and throws nothing to its caller.
C1_FallbackResolves ==
    \A c \in CallIds :
        (calls[c].via = "context" /\ calls[c].pc = "returned" /\ RedirectInitiated(c))
            => calls[c].outcome = "resolved"

\* C2: signInWithGoogle(true) never returns a profile, and whenever the
\* provider's redirect call completes without failure it rejects with
\* exactly REDIRECT_IN_PROGRESS.
C2_RedirectSignalsRedirectInProgress ==
    \A c \in CallIds :
        (ServiceDone(c) /\ calls[c].op = "signInWithGoogle" /\ calls[c].useRedirect)
            => /\ calls[c].result = None
               /\ RedirectInitiated(c) =>
                     calls[c].outcome = "rejected" /\ calls[c].message = REDIRECT_IN_PROGRESS

\* The kind the specification gives each known provider code.
KindOfCode ==
    [ code \in KnownCodes |->
        CASE code = "auth/cancelled-popup-request" -> SIGN_IN_CANCELLED
          [] code = "auth/popup-closed-by-user" -> SIGN_IN_CANCELLED
          [] code = "auth/popup-blocked" -> POPUP_BLOCKED
          [] code = "auth/network-request-failed" -> NETWORK_ERROR
          [] code = "auth/operation-not-allowed" -> OPERATION_NOT_ALLOWED
          [] code = "auth/unauthorized-domain" -> UNAUTHORIZED_DOMAIN
          [] code = "auth/account-exists-with-different-credential" -> ACCOUNT_EXISTS
          [] code = "auth/invalid-api-key" -> CONFIGURATION_ERROR
          [] code = "auth/invalid-oauth-client-id" -> CONFIGURATION_ERROR
          [] code = "auth/user-disabled" -> INVALID_CREDENTIALS
          [] code = "auth/user-not-found" -> INVALID_CREDENTIALS
          [] code = "auth/wrong-password" -> INVALID_CREDENTIALS
          [] code = "auth/invalid-email" -> INVALID_CREDENTIALS ]

\* C3: a Google operation that failed with a known provider code signals the
\* kind fixed for that code.
C3_KnownCodesClassified ==
    \A c \in CallIds : \A e \in ProviderErrors \cup StoreErrors :
        (GoogleCaught(c, e) /\ e.code \in KnownCodes)
            => calls[c].message = KindOfCode[e.code]

C3_Witness ==
    \E c \in CallIds : \E e \in ProviderErrors :
        /\ GoogleCaught(c, e)
        /\ e.code = "auth/account-exists-with-different-credential"
        /\ calls[c].message = ACCOUNT_EXISTS

\* Every error a Google operation can catch.
CaughtErrors == ProviderErrors \cup StoreErrors \cup {NewError(REDIRECT_IN_PROGRESS)}

\* The messages that make up the closed set of kinds: an enumerated kind, or
\* GENERIC_ERROR with a detail.
GenericMessage(detail) == GENERIC_ERROR \o ": " \o detail
KindMessages ==
    (AuthErrorType \ {GENERIC_ERROR})
      \cup {GenericMessage(Template(e.message)) : e \in CaughtErrors}
      \cup {GenericMessage("Unknown error occurred")}

\* C4: the classifier is total and its result is fixed by its input: every
\* error a Google operation catches is signalled as one message of the closed
\* set, a known code as its kind, and every other error that has a message as
\* GENERIC_ERROR followed by that message.
C4_ClassifierTotal ==
    \A c \in CallIds : \A e \in CaughtErrors :
        GoogleCaught(c, e)
            => /\ calls[c].outcome = "rejected"
               /\ calls[c].message \in KindMessages
               /\ e.code \in KnownCodes <=> calls[c].message \in AuthErrorType \ {GENERIC_ERROR}
               /\ (e.code \notin KnownCodes /\ e.message # undefined)
                     => calls[c].message = GenericMessage(e.message)
               /\ \A d \in CallIds :
                     GoogleCaught(d, e) => calls[d].message = calls[c].message

C4_Witness ==
    \E c \in CallIds :
        /\ GoogleCaught(c, Err("auth/internal-error", "Firebase: Error (auth/internal-error)."))
        /\ calls[c].message = "GENERIC_ERROR: Firebase: Error (auth/internal-error)."

\* C5: a Google operation that went into its catch block never resolves: the
\* classifier ends by throwing, so the promise is rejected.
C5_ClassifierAlwaysThrows ==
    \A c \in CallIds :
        (calls[c].pc = "done" /\ calls[c].op \in GoogleOps /\ calls[c].caught # None)
            => calls[c].outcome = "rejected"

C5_Witness ==
    \E c \in CallIds :
        /\ ServiceDone(c) /\ calls[c].op = "checkRedirectResult"
        /\ calls[c].caught = Some(Err(undefined, undefined))
        /\ calls[c].outcome = "rejected"

\* C6: when signUp resolves the provider holds no session, and a
\* getCurrentUser whose observer is called while there is no session
\* resolves with null.
C6_SignUpLeavesNoSession ==
    /\ [](\A c \in CallIds :
            (ServiceDone(c) /\ calls[c].op = "signUp" /\ calls[c].outcome = "resolved")
                => session = None)
    /\ [][\A c \in CallIds :
            (/\ calls[c].op = "getCurrentUser" /\ calls[c].pc = "onAuthStateChanged"
             /\ session = None /\ calls'[c] # calls[c])
                => /\ calls'[c].pc = "done" /\ calls'[c].outcome = "resolved"
                   /\ calls'[c].result = None]_vars

\* signUp and then getCurrentUser, and nothing else: getCurrentUser resolved
\* with null although the account and its profile exist.
C6_Witness ==
    \E c \in CallIds : \E u \in accounts :
        /\ invoked = 2
        /\ ServiceDone(c) /\ calls[c].op = "getCurrentUser"
        /\ calls[c].outcome = "resolved" /\ calls[c].result = None
        /\ u \in DOMAIN users /\ users[u].email = "z@x.com"
        /\ session = None

\* C7: once the context's signUp has resolved, with the subscription attached,
\* every subscription event delivered and nothing else in flight, the context
\* holds no user.
C7_SignUpLeavesContextSignedOut ==
    \A c \in CallIds :
        (/\ calls[c].via = "context" /\ calls[c].op = "signUp"
         /\ calls[c].pc = "returned" /\ calls[c].outcome = "resolved"
         /\ effect = "listening" /\ events = << >> /\ pending = {}
         /\ \A d \in CallIds \ {c} : calls[d] = Idle)
            => user = None

\* C8: a Google sign-in that found no profile for its subject has stored one,
\* with role student, createdAt = lastLogin, emailVerified, and the email,
\* display name and photo of the assertion.
C8_NewGoogleProfile ==
    \A c \in CallIds :
        (/\ ServiceDone(c) /\ calls[c].op \in GoogleOps /\ calls[c].outcome = "resolved"
         /\ calls[c].write # None /\ ~calls[c].write[1].merge)
            => LET fb == calls[c].firebaseUser[1] IN
               /\ fb.uid \in DOMAIN users
               /\ LET d == users[fb.uid] IN
                  /\ d.uid = fb.uid
                  /\ d.role = "student"
                  /\ d.createdAt = d.lastLogin
                  /\ d.emailVerified
                  /\ d.email = Or(fb.email, "")
                  /\ d.displayName = Or(fb.displayName, "")
                  /\ IF Falsy(fb.photoURL) THEN "photoURL" \notin DOMAIN d
                     ELSE d.photoURL = fb.photoURL

\* C9: the stored role and createdAt of a profile never change.
C9_RoleAndCreatedAtWriteOnce ==
    [][\A u \in DOMAIN users :
          /\ u \in DOMAIN users'
          /\ \A f \in {"role", "createdAt"} :
                f \in DOMAIN users[u]
                    => f \in DOMAIN users'[u] /\ users'[u][f] = users[u][f]]_vars

\* Call c completes its setDoc with success in this step.
Wrote(c) ==
    /\ calls[c].pc = "setDoc"
    /\ calls'[c].pc # "setDoc"
    /\ calls'[c].caught = None

MergeFields == {"lastLogin", "photoURL", "displayName"}

\* C10: a sign-in that merges into an existing profile sends only lastLogin,
\* photoURL and displayName, and leaves every other stored field, role,
\* createdAt and email among them, as it was.
C10_MergeLeavesProfile ==
    [][\A c \in CallIds :
          (/\ calls[c].op \in GoogleOps \cup {"signIn"}
           /\ Wrote(c)
           /\ calls[c].write[1].merge
           /\ calls[c].userData[1].uid \in DOMAIN users)
              => LET uid == calls[c].userData[1].uid IN
                 /\ DOMAIN calls[c].write[1].data \subseteq MergeFields
                 /\ \A f \in DOMAIN users[uid] \ MergeFields :
                       f \in DOMAIN users'[uid] /\ users'[uid][f] = users[uid][f]]_vars

\* A Google sign-in merged into a profile that signUp created with role admin.
C10_Witness ==
    \E c \in CallIds :
        /\ ServiceDone(c) /\ calls[c].op = "signInWithGoogle" /\ calls[c].outcome = "resolved"
        /\ calls[c].write[1].merge
        /\ LET uid == calls[c].userData[1].uid IN
           /\ uid \in DOMAIN users
           /\ users[uid].role = "admin"
           /\ users[uid].email = "z@x.com"
           /\ users[uid].displayName = "Ann"

\* C11: the stored lastLogin of a profile never decreases.
C11_LastLoginNonDecreasing ==
    [][\A u \in DOMAIN users :
          "lastLogin" \in DOMAIN users[u]
              => /\ u \in DOMAIN users' /\ "lastLogin" \in DOMAIN users'[u]
                 /\ users'[u].lastLogin >= users[u].lastLogin]_vars

\* C12: a signIn whose profile read finds no document for the authenticated
\* subject fails with the generic profile error, returns no profile and
\* writes nothing.
C12_SignInRequiresProfile ==
    [][\A c \in CallIds :
          (/\ calls[c].op = "signIn" /\ calls[c].pc = "getDoc"
           /\ calls'[c] # calls[c]
           /\ calls[c].firebaseUser[1].uid \notin DOMAIN users)
              => /\ calls'[c].pc = "done"
                 /\ calls'[c].outcome = "rejected"
                 /\ calls'[c].message = "Failed to get user data"
                 /\ calls'[c].result = None
                 /\ calls'[c].write = None
                 /\ users' = users]_vars

\* The operations that may create a profile.
CreatingOps == GoogleOps \cup {"signUp"}

\* C13: a document of 'users' comes into being only in the setDoc step of a
\* signUp or of a Google sign-in, and a subject whose signUp or Google
\* sign-in has resolved has a document.
C13_ProfileIffSignUpOrGoogle ==
    /\ [][\A u \in DOMAIN users' \ DOMAIN users :
             \E c \in CallIds :
                /\ calls[c].op \in CreatingOps /\ calls[c].pc = "setDoc"
                /\ calls[c].userData[1].uid = u
                /\ Wrote(c)]_vars
    /\ [](\A c \in CallIds :
            (/\ calls[c].pc = "done" /\ calls[c].op \in CreatingOps
             /\ calls[c].outcome = "resolved" /\ calls[c].result # None)
                => calls[c].result[1].uid \in DOMAIN users)

\* C14: when the provider refuses the password authentication, signIn rejects
\* with the provider's own message, or with 'Failed to sign in' when there is
\* none; the message is no classified kind, and the store is neither read nor
\* written.
C14_PasswordFailureUnclassified ==
    [][\A c \in CallIds :
          (/\ calls[c].op = "signIn" /\ calls[c].pc = "signInWithEmailAndPassword"
           /\ calls'[c].pc = "done")
              => /\ calls'[c].outcome = "rejected"
                 /\ \E e \in PasswordErrors :
                       /\ calls'[c].caught = Some(e)
                       /\ calls'[c].message =
                             IF e.message = undefined THEN "Failed to sign in" ELSE e.message
                 /\ calls'[c].message \notin KindMessages
                 /\ calls'[c].userData = None /\ calls'[c].write = None
                 /\ users' = users]_vars

C14_Witness ==
    \E c \in CallIds :
        /\ ServiceDone(c) /\ calls[c].op = "signIn"
        /\ calls[c].caught = Some(Err("auth/wrong-password", "Firebase: Error (auth/wrong-password)."))
        /\ calls[c].message = "Firebase: Error (auth/wrong-password)."
        /\ calls[c].firebaseUser = None

\* C15: whatever step a Google operation failed at, the provider call, the
\* store read or the store write, it rejects with a message of the closed set
\* of kinds.
C15_GoogleFailuresClassified ==
    \A c \in CallIds :
        (calls[c].pc = "done" /\ calls[c].op \in GoogleOps /\ calls[c].outcome = "rejected")
            => /\ calls[c].caught # None
               /\ calls[c].message \in KindMessages

\* A Google sign-in whose store write failed.
C15_Witness ==
    \E c \in CallIds :
        /\ ServiceDone(c) /\ calls[c].op = "signInWithGoogle" /\ calls[c].outcome = "rejected"
        /\ calls[c].write # None
        /\ calls[c].caught = Some(Err("permission-denied", "Missing or insufficient permissions."))
        /\ calls[c].message = "GENERIC_ERROR: Missing or insufficient permissions."

Unsubscribed == effect \in {"unsubscribed", "unsubscribed twice"}

\* C17: once unsubscribe has been called the observer is detached and no
\* later change of the provider's session reaches the listener: unless the
\* conversion of a user delivered before is still in flight, the listener is
\* never called again, so a listener unsubscribed before its first call is
\* never called; a second call of unsubscribe changes nothing.
C17_UnsubscribeSilences ==
    [][/\ Unsubscribed
          => /\ ~observing' /\ events' = << >>
             /\ pending' \subseteq pending
             /\ pending = {} => UNCHANGED <<user, loading>>
       /\ (effect = "unsubscribed" /\ effect' = "unsubscribed twice")
          => UNCHANGED <<session, users, calls, observing, events, pending, user, loading>>]_vars

\* The listener was unsubscribed, twice, without ever having been called, and
\* a Google sign-in has changed the provider's session.
C17_Witness ==
    /\ effect = "unsubscribed twice"
    /\ loading /\ user = None /\ pending = {}
    /\ session # None
    /\ invoked = 1
    /\ \E c \in CallIds : calls[c].op = "signInWithGoogle" /\ calls[c].pc = "getDoc"

\* C18: the subscription never writes to the store. The observer's step and
\* the step that ends a conversion leave 'users' as it is, and a null session
\* is passed to the listener at once, with no conversion started.
C18_SubscriptionNeverWrites ==
    [][/\ events # << >>
          => /\ users' = users
             /\ Head(events) = None
                   => /\ user' = None /\ ~loading'
                      /\ pending' = pending /\ now' = now
       /\ (pending' # pending /\ pending' \subseteq pending)
          => users' = users]_vars

\* The listener has delivered a profile for a subject that has a session and
\* no document, and there is still no document.
C18_Witness ==
    /\ effect = "listening" /\ pending = {} /\ events = << >>
    /\ user # None /\ ~loading
    /\ session = Some(user[1].uid)
    /\ user[1].uid \notin DOMAIN users

\* C19: no step of getCurrentUser changes the store, it resolves with null
\* when the provider holds no session, and a profile it resolves with for a
\* subject that has no document leaves that subject without a document.
C19_GetCurrentUserReadOnly ==
    [][\A c \in CallIds :
          (calls[c].op = "getCurrentUser" /\ calls'[c] # calls[c])
             => /\ users' = users
                /\ session' = session
                /\ (calls[c].pc = "onAuthStateChanged" /\ session = None)
                      => calls'[c].outcome = "resolved" /\ calls'[c].result = None
                /\ (calls'[c].pc = "done" /\ calls'[c].result # None)
                      => \A u \in Uid : u \in DOMAIN users' <=> u \in DOMAIN users]_vars

\* getCurrentUser resolved with a profile for the subject of the session,
\* who has no document.
C19_Witness ==
    \E c \in CallIds :
        /\ ServiceDone(c) /\ calls[c].op = "getCurrentUser" /\ calls[c].outcome = "resolved"
        /\ calls[c].result # None
        /\ session = Some(calls[c].result[1].uid)
        /\ calls[c].result[1].uid \notin DOMAIN users
        /\ calls[c].result[1].role = "student"

\* The call of checkRedirectResult that the mount effect made.
EffectCall(c) == calls[c].via = "effect"

\* C20: the context starts with no user and loading true; checkRedirectResult
\* runs before any listener is attached; a profile it resolves with is adopted,
\* loading becomes false and no listener is ever attached; otherwise (null, or
\* a failure) the listener is attached with user and loading as they were,
\* and, as long as no operation of the context is called, loading is true
\* exactly until the listener has been called for its first event.
C20_StartupProtocol ==
    /\ [](/\ effect = "unmounted" => user = None /\ loading /\ ~observing
          /\ effect = "checkRedirectResult"
                => ~observing /\ events = << >> /\ \E c \in CallIds : EffectCall(c)
          /\ effect = "adopted" => ~observing /\ events = << >> /\ pending = {}
          /\ (effect = "checkRedirectResult" /\ invoked = 0) => user = None /\ loading
          /\ (effect = "listening" /\ invoked = 0)
                => (loading <=> (events # << >> \/ pending # {})))
    /\ [][\A c \in CallIds :
            (EffectCall(c) /\ ~EffectCall(c)')
               => IF calls[c].outcome = "resolved" /\ calls[c].result # None
                  THEN /\ effect' = "adopted" /\ ~observing'
                       /\ user' = calls[c].result /\ ~loading'
                  ELSE /\ effect' = "listening" /\ observing' /\ ~observing
                       /\ Len(events') = Len(events) + 1
                       /\ UNCHANGED <<user, loading>>]_vars

\* checkRedirectResult failed after the provider had signed the subject in;
\* the failure was swallowed, the listener attached, and its first event has
\* ended the loading.
C20_Witness ==
    /\ effect = "listening" /\ invoked = 0
    /\ events = << >> /\ pending = {}
    /\ session # None
    /\ user # None /\ ~loading
    /\ DOMAIN users = {}

\* The operations of the context that toggle loading around the service call.
ToggledOps == {"signIn", "signUp", "signOut"}

\* C21: signIn, signUp and signOut of the context set loading when they are
\* called, and when one of them has settled, resolved or rejected, with no
\* other operation of the context in flight, loading is false.
C21_LoadingToggled ==
    /\ [][\A c \in CallIds :
            (/\ calls[c] = Idle /\ calls'[c].via = "context"
             /\ calls'[c].op \in ToggledOps)
                => loading']_vars
    /\ [](\A c \in CallIds :
            (/\ calls[c].via = "context" /\ calls[c].op \in ToggledOps
             /\ calls[c].pc = "returned"
             /\ \A d \in CallIds \ {c} : calls[d].via # "context")
                => ~loading)

\* The context's signIn has rejected and loading is false.
C21_Witness ==
    \E c \in CallIds :
        /\ calls[c].via = "context" /\ calls[c].op = "signIn"
        /\ calls[c].pc = "returned" /\ calls[c].outcome = "rejected"
        /\ calls[c].message = "Firebase: Error (auth/wrong-password)."
        /\ \A d \in CallIds \ {c} : calls[d] = Idle
        /\ ~loading

\* Call c is the context's signInWithGoogle whose popup attempt has settled.
PopupSettled(c) ==
    /\ calls[c].via = "context" /\ calls[c].op = "signInWithGoogle"
    /\ ~calls[c].useRedirect /\ calls[c].pc = "done"

\* C22: the context starts the redirect attempt only from a popup attempt
\* that was rejected with exactly POPUP_BLOCKED; a settled redirect attempt
\* ends the call, so there is one redirect at most; any other failure of the
\* popup clears loading and is thrown to the caller with its message as it was.
C22_FallbackPolicy ==
    [][\A c \in CallIds :
          /\ (calls'[c].useRedirect /\ ~calls[c].useRedirect)
                => /\ PopupSettled(c)
                   /\ calls[c].outcome = "rejected" /\ calls[c].message = POPUP_BLOCKED
                   /\ calls'[c].pc = "signInWithRedirect"
          /\ (calls[c].useRedirect /\ calls[c].pc = "done" /\ calls'[c] # calls[c])
                => calls'[c].pc = "returned" /\ calls'[c].useRedirect
          /\ (/\ PopupSettled(c) /\ calls[c].outcome = "rejected"
              /\ calls[c].message # POPUP_BLOCKED /\ calls'[c] # calls[c])
                => /\ calls'[c].pc = "returned" /\ calls'[c].outcome = "rejected"
                   /\ calls'[c].message = calls[c].message
                   /\ ~calls'[c].useRedirect
                   /\ ~loading' /\ user' = user]_vars

\* The popup was blocked and the context has started the redirect attempt.
C22_Witness ==
    \E c \in CallIds :
        /\ calls[c].via = "context" /\ calls[c].op = "signInWithGoogle"
        /\ calls[c].useRedirect /\ calls[c].pc = "signInWithRedirect"
        /\ loading

\* C23: when the redirect retry of the context's signInWithGoogle has ended
\* with the provider having started the redirect, loading is true.
C23_RedirectKeepsLoading ==
    \A c \in CallIds :
        (calls[c].via = "context" /\ calls[c].pc = "returned" /\ RedirectInitiated(c))
            => loading

GoogleSignInFailed == "Google sign-in failed. Please try again or use email/password."

\* C24: when the redirect retry of the context's signInWithGoogle is rejected
\* with anything but REDIRECT_IN_PROGRESS, the context call rejects with the
\* 'Google sign-in failed' error and loading is false.
C24_RetryFailureSurfaced ==
    [][\A c \in CallIds :
          (/\ calls[c].via = "context" /\ calls[c].useRedirect /\ calls[c].pc = "done"
           /\ calls[c].outcome = "rejected" /\ calls[c].message # REDIRECT_IN_PROGRESS
           /\ calls'[c] # calls[c])
              => /\ calls'[c].pc = "returned" /\ calls'[c].outcome = "rejected"
                 /\ calls'[c].message = GoogleSignInFailed
                 /\ ~loading']_vars

\* The provider refused the redirect and the context call has rejected.
C24_Witness ==
    \E c \in CallIds :
        /\ calls[c].via = "context" /\ calls[c].useRedirect /\ calls[c].pc = "returned"
        /\ calls[c].caught = Some(Err("auth/network-request-failed",
                                      "Firebase: Error (auth/network-request-failed)."))
        /\ calls[c].outcome = "rejected" /\ calls[c].message = GoogleSignInFailed
        /\ ~loading

\* C25: checkRedirectResult with no redirect result resolves with null and
\* neither reads nor writes the store; a failure of the provider is rejected
\* with its classified kind; with a result it creates the profile when the
\* subject has no document and merges into it otherwise, by the rules of the
\* popup path, and resolves with the profile.
C25_CheckRedirectResult ==
    [][\A c \in CallIds :
          (calls[c].op = "checkRedirectResult" /\ calls'[c] # calls[c] /\ calls'[c] # Idle)
             => LET was == calls[c]
                    is == calls'[c] IN
                /\ (was.pc = "getRedirectResult" /\ is.pc = "done" /\ is.caught = None)
                      => /\ is.outcome = "resolved" /\ is.result = None
                         /\ is.userData = None /\ is.write = None
                         /\ users' = users
                /\ (was.pc = "getRedirectResult" /\ is.pc = "done" /\ is.caught # None)
                      => /\ is.outcome = "rejected"
                         /\ is.caught[1] \in ProviderErrors
                         /\ is.message \in KindMessages
                         /\ is.caught[1].code \in KnownCodes
                               => is.message = KindOfCode[is.caught[1].code]
                /\ (was.pc = "getDoc" /\ is.pc = "setDoc")
                      => LET fb == was.firebaseUser[1] IN
                         \E t1, t2, t3 \in Times :
                            IF fb.uid \notin DOMAIN users
                            THEN /\ is.userData = Some(NewGoogleProfile(fb, t1, t2))
                                 /\ is.write = Some([data |-> is.userData[1], merge |-> FALSE])
                            ELSE /\ is.userData =
                                       Some(ExistingGoogleProfile(fb, users[fb.uid], t1, t2))
                                 /\ is.write =
                                       Some([data |-> GoogleMergeData(fb, users[fb.uid], t3),
                                             merge |-> TRUE])
                /\ (was.pc = "setDoc" /\ is.caught = None)
                      => /\ is.outcome = "resolved" /\ is.result = was.userData
                         /\ users' = setDoc(users, was.userData[1].uid,
                                            was.write[1].data, was.write[1].merge)]_vars

\* checkRedirectResult found a profile of role admin and has merged into it.
C25_Witness ==
    \E c \in CallIds :
        /\ ServiceDone(c) /\ calls[c].op = "checkRedirectResult"
        /\ calls[c].outcome = "resolved" /\ calls[c].result # None
        /\ calls[c].write[1].merge
        /\ calls[c].result[1].role = "admin"
        /\ users[calls[c].result[1].uid].role = "admin"

\* C26: no operation of the service ends normally after a failure: a call
\* that caught an error is rejected, and a getCurrentUser that found a
\* session, and so read the store, resolves with a profile or is rejected.
C26_NoFailureSwallowed ==
    \A c \in CallIds :
        ServiceDone(c)
            => /\ calls[c].caught # None => calls[c].outcome = "rejected"
               /\ (calls[c].op = "getCurrentUser" /\ calls[c].firebaseUser # None)
                     => calls[c].outcome = "rejected" \/ calls[c].result # None

\* C27, as the specification states it: a sign-in that failed at the store
\* rejects with the store's own error: with its message when the write, or the
\* read of a Google operation, failed, and when signIn got no profile from its
\* read.
C27_StoreErrorsUnchanged ==
    \A c \in CallIds :
        (ServiceDone(c) /\ calls[c].op \in GoogleOps \cup {"signIn"})
            => /\ (calls[c].caught # None /\ calls[c].caught[1] \in StoreErrors)
                     => /\ calls[c].outcome = "rejected"
                        /\ calls[c].message = calls[c].caught[1].message
               /\ (/\ calls[c].op = "signIn" /\ calls[c].outcome = "rejected"
                   /\ calls[c].firebaseUser # None /\ calls[c].userData = None)
                     => calls[c].message \in {e.message : e \in StoreErrors}

\* C27: a sign-in that failed at the store is rejected, and the store's
\* message reaches the caller in one of three fixed forms: a Google operation
\* rejects with GENERIC_ERROR followed by the store's message, a failed write of
\* signIn rejects with the store's message, and a failed read of signIn rejects
\* with 'Failed to get user data'.
C27_StoreErrorsSurfaced ==
    \A c \in CallIds :
        ServiceDone(c)
            => /\ (/\ calls[c].op \in GoogleOps
                   /\ calls[c].caught # None /\ calls[c].caught[1] \in StoreErrors)
                     => /\ calls[c].outcome = "rejected"
                        /\ calls[c].message = GenericMessage(calls[c].caught[1].message)
               /\ (/\ calls[c].op = "signIn"
                   /\ calls[c].caught # None /\ calls[c].caught[1] \in StoreErrors)
                     => /\ calls[c].outcome = "rejected"
                        /\ calls[c].message = calls[c].caught[1].message
               /\ (/\ calls[c].op = "signIn" /\ calls[c].outcome = "rejected"
                   /\ calls[c].firebaseUser # None /\ calls[c].userData = None)
                     => calls[c].message = "Failed to get user data"

\* The merge-write of a signIn failed.
C27_Witness ==
    \E c \in CallIds :
        /\ ServiceDone(c) /\ calls[c].op = "signIn" /\ calls[c].outcome = "rejected"
        /\ calls[c].write # None
        /\ calls[c].caught = Some(Err("permission-denied", "Missing or insufficient permissions."))
        /\ calls[c].message = "Missing or insufficient permissions."

\* The provider calls the observer that onAuthStateChange attached (auth.ts
\* line 322) with the next auth-state change.
ObserverCalled == events # << >> /\ events' = Tail(events)

\* C28: once the AuthProvider has unmounted, the subscription attached at startup
\* is detached, whether the unmount came before or after the redirect check
\* resolved: no observer stays attached and the provider calls none.
C28_UnmountDetaches ==
    /\ [](~mounted => ~observing)
    /\ [][~mounted => ~ObserverCalled]_vars

\* The profiles that a step hands over: the one a sign-in will return, built
\* from the snapshot it has just read (auth.ts lines 106, 160-189, 220-246),
\* the one getCurrentUser resolves with (line 313) and the one the subscription
\* calls its listener with (lines 324-325); each with the user of the provider
\* that it was built from.
Delivered ==
    {[firebaseUser |-> calls[c].firebaseUser[1], profile |-> calls'[c].userData[1]] :
        c \in {d \in CallIds : /\ calls[d].pc = "getDoc"
                                /\ calls[d].op \in {"signIn"} \cup GoogleOps
                                /\ calls'[d].userData # None}}
    \cup
    {[firebaseUser |-> calls[c].firebaseUser[1], profile |-> calls'[c].result[1]] :
        c \in {d \in CallIds : /\ calls[d].pc = "getDoc"
                                /\ calls[d].op = "getCurrentUser"
                                /\ calls'[d].result # None}}
    \cup
    {[firebaseUser |-> fb, profile |-> user'[1]] :
        fb \in {g \in pending : pending' = pending \ {g} /\ user' # None}}

\* The value of a field that is refreshed from the provider: the provider's
\* value if it is not empty, else the stored one, else the field's empty value.
Refreshed(value, data, field, empty) ==
    IF ~Falsy(value) THEN value ELSE IF field \in DOMAIN data THEN data[field] ELSE empty

\* C29: in every profile that is returned or delivered, displayName and photoURL
\* are the provider's value when it is not empty and the stored value otherwise;
\* a stored photoURL is never dropped.
C29_RefreshedOrRetained ==
    [][\A d \in Delivered :
         LET data == Data(getDoc(users, d.firebaseUser.uid)) IN
         /\ d.profile.displayName = Refreshed(d.firebaseUser.displayName, data, "displayName", "")
         /\ Field(d.profile, "photoURL")
               = Refreshed(d.firebaseUser.photoURL, data, "photoURL", undefined)]_vars

\* C30: the email of a profile is fixed at creation: every profile that is
\* returned or delivered for a user whose profile is stored carries the stored
\* email, whatever the email of the provider's user is.
C30_EmailFixedAtCreation ==
    [][\A d \in Delivered :
         LET data == Data(getDoc(users, d.firebaseUser.uid)) IN
         "email" \in DOMAIN data => d.profile.email = data.email]_vars

\* The awaits of an operation in the order of its text: the await that may
\* follow `pc` when `pc` resolved (auth.ts lines 105-113, 148-176, 206-234,
\* 270-289). A rejected await leads to the catch block and settles the call.
NextAwait(op, pc) ==
    CASE op = "signIn" /\ pc = "signInWithEmailAndPassword" -> {"getDoc"}
      [] op \in GoogleOps /\ pc \in {"signInWithPopup", "getRedirectResult"} -> {"getDoc"}
      [] op \in {"signIn"} \cup GoogleOps /\ pc = "getDoc" -> {"setDoc"}
      [] op = "signUp" /\ pc = "createUserWithEmailAndPassword" -> {"updateProfile"}
      [] op = "signUp" /\ pc = "updateProfile" -> {"setDoc"}
      [] op = "signUp" /\ pc = "setDoc" -> {"firebaseSignOut"}
      [] OTHER -> {}

Running(c) == calls[c].pc \notin {"idle", "done", "returned"}

\* C31: the steps of one call are strictly ordered: the provider's
\* authentication, then the store read, then the store write; in signUp create
\* account, set display name, write profile, terminate session. A call writes
\* the store only at its write step, with the provider's user and the read
\* behind it, and signUp terminates the session only after its write succeeded.
C31_StepsInOrder ==
    /\ [][\A c \in CallIds :
            Running(c) /\ calls'[c] # calls[c]
            /\ calls[c].op \in {"signIn", "signUp"} \cup GoogleOps
            => /\ calls'[c].pc \in NextAwait(calls[c].op, calls[c].pc) \cup {"done"}
               /\ users' # users => calls[c].pc = "setDoc"
               /\ calls[c].op = "signUp" /\ session' # session /\ session' = None
                     => calls[c].pc = "firebaseSignOut"]_vars
    /\ [](\A c \in CallIds :
            /\ calls[c].pc = "setDoc"
                 => calls[c].firebaseUser # None /\ calls[c].userData # None
            /\ calls[c].op = "signUp" /\ calls[c].pc = "firebaseSignOut"
                 => calls[c].firebaseUser[1].uid \in DOMAIN users)

\* A signUp has run through all its steps and a later signIn through its own.
C31_Witness ==
    \E c \in CallIds :
        /\ calls[c].op = "signIn" /\ calls[c].pc = "done"
        /\ calls[c].outcome = "resolved" /\ calls[c].result # None
        /\ "role" \in DOMAIN users[calls[c].result[1].uid]

\* C32: the results of the subscription reach the listener in the order in
\* which the provider reported the changes: once the provider's latest state is
\* signed-out and every callback has run, the listener's last value is absent.
C32_DeliveredInOrder ==
    [](observing /\ session = None /\ events = << >> /\ pending = {} => user = None)

\* C33: when Google sign-ins of a subject that had no profile overlap, the
\* profile is created once: a Google sign-in that completes its write where
\* another one has already stored the profile (no signUp has taken part) leaves
\* the stored createdAt and role as they are.
C33_CreatedOnce ==
    [][\A c \in CallIds :
          (/\ calls[c].op \in GoogleOps
           /\ Wrote(c)
           /\ accounts = {}
           /\ calls[c].userData[1].uid \in DOMAIN users)
              => LET uid == calls[c].userData[1].uid IN
                 \A f \in {"role", "createdAt"} :
                    f \in DOMAIN users'[uid] /\ users'[uid][f] = users[uid][f]]_vars

\* An operation of the context has been called and its promise has not settled.
InFlight(c) == calls[c].via = "context" /\ calls[c].pc \notin {"idle", "returned"}

\* C34: loading is true whenever an operation of the context is in flight, also
\* when operations overlap or the listener is called meanwhile.
C34_LoadingWhileInFlight ==
    []((\E c \in CallIds : InFlight(c)) => loading)

\* C35: signUp leaves no session on any outcome: when it fails after the
\* account was created, because setting the display name or writing the
\* profile failed, the new session is terminated before the failure is
\* signalled (no other operation has been called that could hold a session).
C35_FailedSignUpLeavesNoSession ==
    [][\A c \in CallIds :
          (/\ calls[c].op = "signUp" /\ calls[c].pc \in {"updateProfile", "setDoc"}
           /\ calls'[c].pc = "done" /\ calls'[c].outcome = "rejected"
           /\ invoked = 1)
              => session' = None]_vars

\* C36: a context operation that fails leaves the user as it was: of the steps
\* of a context operation only the one that takes the service's success sets
\* the user, and signIn, signUp and signOut reject with the service's error as
\* it is.
C36_FailureLeavesUser ==
    [][\A c \in CallIds :
          /\ (/\ calls'[c] # calls[c]
              /\ "context" \in {calls[c].via, calls'[c].via}
              /\ ~(calls'[c].pc = "returned" /\ calls'[c].outcome = "resolved"))
                 => user' = user
          /\ (/\ calls[c].via = "context" /\ calls[c].op \in {"signIn", "signUp", "signOut"}
              /\ calls'[c].pc = "returned" /\ calls'[c].outcome = "rejected")
                 => /\ calls[c].pc = "done" /\ calls[c].outcome = "rejected"
                    /\ calls'[c].message = calls[c].message
                    /\ calls'[c].caught = calls[c].caught]_vars

\* The context's signOut has rejected while the context holds a user.
C36_Witness ==
    \E c \in CallIds :
        /\ calls[c].via = "context" /\ calls[c].op = "signOut"
        /\ calls[c].pc = "returned" /\ calls[c].outcome = "rejected"
        /\ user # None

====
